---------------------------- MODULE Spec2Model ----------------------------
(* A state-machine model of pratts.py: the Lucas witness search `_lucas`   *)
(* and the recursive certificate builder `pratts`.  The recursion of       *)
(* `pratts` is an explicit stack of frames; one frame is one invocation.   *)
EXTENDS Integers, Sequences, FiniteSets, TLC

(* ------------------------------ bounds -------------------------------- *)
\* largest integer supplied as argument or as an element of primes
MaxN == 7
\* largest number of elements of the supplied primes
MaxLen == 2
\* range(100) in _lucas
LucasTrials == 100

VARIABLES
    pc,                \* "start" | "running" | "done"
    argument,          \* the top-level call's argument
    primes,            \* the top-level call's primes, as supplied (unsorted)
    partial,           \* the top-level call's partial flag
    argIsInt,          \* isinstance(argument, int)
    primesIsIterable,  \* isinstance(primes, Iterable)
    primesAllInt,      \* all(isinstance(p, int) for p in primes)
    stack,             \* the active invocations of pratts, innermost last
    result,            \* how the top-level call ended
    run,               \* 1: the first call; 2: the verifying call on keys
    first,             \* the certificate the first call returned
    missed             \* some witness search returned False though a
                       \* witness existed in the range it draws from

vars == <<pc, argument, primes, partial, argIsInt, primesIsIterable,
          primesAllInt, stack, result, run, first, missed>>

(* ------------------------- Python primitives -------------------------- *)
RECURSIVE Insert(_, _)
Insert(x, s) ==
    IF s = <<>> THEN <<x>>
    ELSE IF x <= Head(s) THEN <<x>> \o s
    ELSE <<Head(s)>> \o Insert(x, Tail(s))

\* a list left in the order it was supplied in
Unsorted(s) == s

RECURSIVE SortedList(_)
\* sorted(list) on a list of integers
SortedList(s) ==
    IF s = <<>> THEN <<>> ELSE Insert(Head(s), SortedList(Tail(s)))

RECURSIVE SetToSortedList(_)
\* list(sorted(factors)) on a set of integers
SetToSortedList(S) ==
    IF S = {} THEN <<>>
    ELSE LET m == CHOOSE x \in S : \A y \in S : x <= y
         IN  <<m>> \o SetToSortedList(S \ {m})

RECURSIVE Pow(_, _, _)
\* pow(a, e, n) for e >= 0, n >= 1
Pow(a, e, n) ==
    IF e = 0 THEN 1 % n ELSE (a * Pow(a, e - 1, n)) % n

\* the values secrets.randbelow(k) can return; it raises for k <= 0
RandBelow(k) == 0 .. (k - 1)

(* --------------------------- certificates ----------------------------- *)
\* A certificate is a Python dict: a sequence of items in insertion order.
\* A value is a list of factors or None.
NoneValue == [known |-> FALSE, list |-> <<>>]
ListValue(s) == [known |-> TRUE, list |-> s]

Keys(d) == {d[j].k : j \in 1..Len(d)}
KeyList(d) == [j \in 1..Len(d) |-> d[j].k]
Lookup(d, key) == (CHOOSE j \in 1..Len(d) : d[j].k = key)

\* d.update({key: value}) / d[key] = value
DictSet(d, key, value) ==
    IF key \in Keys(d)
    THEN [d EXCEPT ![Lookup(d, key)] = [k |-> key, v |-> value]]
    ELSE Append(d, [k |-> key, v |-> value])

RECURSIVE DictUpdate(_, _)
\* d.update(e)
DictUpdate(d, e) ==
    IF e = <<>> THEN d
    ELSE DictUpdate(DictSet(d, Head(e).k, Head(e).v), Tail(e))

RECURSIVE InsertItem(_, _)
InsertItem(x, s) ==
    IF s = <<>> THEN <<x>>
    ELSE IF x.k <= Head(s).k THEN <<x>> \o s
    ELSE <<Head(s)>> \o InsertItem(x, Tail(s))

RECURSIVE SortedItems(_)
\* dict(sorted(certificate.items()))
SortedItems(d) ==
    IF d = <<>> THEN <<>> ELSE InsertItem(Head(d), SortedItems(Tail(d)))

(* ------------------------------ _lucas -------------------------------- *)
\* a trial without the condition pow(a, n - 1, n) == 1
IsWitnessNoFermat(a, n, factors) ==
    \A p \in factors : Pow(a, (n - 1) \div p, n) # 1

\* the condition of one trial, for the base a
IsWitness(a, n, factors) ==
    /\ Pow(a, n - 1, n) = 1
    /\ \A p \in factors : Pow(a, (n - 1) \div p, n) # 1

\* the bases one trial can draw: a = 2 + randbelow(n - 2)
Bases(n) == {2 + r : r \in RandBelow(n - 2)}

\* a trial counter that does not advance
SameTrial(t) == t

\* the trial counter after a failed trial
NextTrial(t) == t + 1

(* ------------------------------ pratts -------------------------------- *)
\* the candidates one invocation iterates over: primes + [argument]
Candidates(ps, arg) == ps \o <<arg>>

RECURSIVE DivideOut(_, _)
\* while n % q == 0: n = n // q
DivideOut(n, q) == IF n % q = 0 THEN DivideOut(n \div q, q) ELSE n

RECURSIVE TrialDivide(_, _, _, _)
\* the loop "for q in primes: if q < p: while n % q == 0: ..." from n,
\* factors onwards; yields the final n and factors
TrialDivide(p, ps, n, factors) ==
    IF ps = <<>> THEN [n |-> n, factors |-> factors]
    ELSE LET q == Head(ps)
         IN  IF q < p /\ n % q = 0
             THEN TrialDivide(p, Tail(ps), DivideOut(n, q), factors \cup {q})
             ELSE TrialDivide(p, Tail(ps), n, factors)

\* n and factors for the candidate p
Factored(p, ps) == TrialDivide(p, ps, p - 1, {})

\* the cofactor left after the trial division
ReportedRemaining(p, n) == n

\* the number named by 'cannot find all prime factors for ...'
Reported(p, n) == p - 1

\* primes=[p for p in primes if p < f]
SubPool(ps, f) == SelectSeq(ps, LAMBDA q : q < f)

\* the sub-certificate taking the place of the certificate
MergeReplace(certificate, sub) == sub

\* certificate.update(certificate_) in the caller
Merge(certificate, sub) == DictUpdate(certificate, sub)

\* partial passed on to a recursive call
SubPartialInherited(part) == part

\* partial is not passed on to a recursive call: it takes its default
SubPartial(part) == FALSE

\* {2: []}
BaseCertificate == <<[k |-> 2, v |-> ListValue(<<>>)]>>

\* the checks on the elements of primes
AllGreaterThanOne(ps) == \A j \in 1..Len(ps) : ps[j] > 1

(* ------------------------------ results ------------------------------- *)
NoResult == [kind |-> "pending", exc |-> "", msg |-> "", value |-> 0,
             certificate |-> <<>>]
Raised(e, m, v) == [kind |-> "raise", exc |-> e, msg |-> m, value |-> v,
                    certificate |-> <<>>]
ReturnedNone == [kind |-> "None", exc |-> "", msg |-> "", value |-> 0,
                 certificate |-> <<>>]
Returned(c) == [kind |-> "certificate", exc |-> "", msg |-> "", value |-> 0,
                certificate |-> c]

\* a fresh invocation past the validation and the base case
Frame(arg, ps, part) ==
    [argument |-> arg, primes |-> ps, partial |-> part, i |-> 1,
     certificate |-> <<>>, at |-> "loop", factors |-> {}, todo |-> {},
     trial |-> 0]

Top == stack[Len(stack)]
Depth == Len(stack)
SetTop(f) == [stack EXCEPT ![Len(stack)] = f]
Current(f) == Candidates(f.primes, f.argument)[f.i]

Finish(r) ==
    /\ result' = r
    /\ stack' = <<>>
    /\ pc' = "done"

(* ------------------------------- Init --------------------------------- *)
SeqsUpTo(S, n) == UNION {[1..m -> S] : m \in 0..n}

Init ==
    /\ pc = "start"
    /\ argIsInt \in BOOLEAN
    /\ primesIsIterable \in BOOLEAN
    /\ primesAllInt \in BOOLEAN
    /\ argument \in 0..MaxN
    /\ primes \in SeqsUpTo(1..MaxN, MaxLen)
    /\ partial \in BOOLEAN
    \* a value that is not an integer, or not iterable, carries no number
    /\ ~argIsInt => argument = 0
    /\ ~primesIsIterable => (primes = <<>> /\ primesAllInt)
    /\ stack = <<>>
    /\ result = NoResult
    /\ run = 1
    /\ first = <<>>
    /\ missed = FALSE

(* ------------------------------ actions ------------------------------- *)
\* the validation without the check argument < 1
ValidationErrorNoPositive(isInt, arg, isIterable, allInt, ps) ==
    IF ~isInt
    THEN Raised("TypeError", "argument must be an integer", 0)
    ELSE IF ~isIterable
    THEN Raised("TypeError", "prime factors must be supplied as an iterable", 0)
    ELSE IF ~allInt
    THEN Raised("ValueError", "every prime factor must be an integer", 0)
    ELSE IF \E j \in 1..Len(ps) : ps[j] <= 1
    THEN Raised("ValueError", "every prime factor must be greater than 1", 0)
    ELSE NoResult

\* lines 171-187: the exception the validation raises, or NoResult
ValidationError(isInt, arg, isIterable, allInt, ps) ==
    IF ~isInt
    THEN Raised("TypeError", "argument must be an integer", 0)
    ELSE IF arg < 1
    THEN Raised("ValueError", "argument must be a positive integer", 0)
    ELSE IF ~isIterable
    THEN Raised("TypeError", "prime factors must be supplied as an iterable", 0)
    ELSE IF ~allInt
    THEN Raised("ValueError", "every prime factor must be an integer", 0)
    ELSE IF ~AllGreaterThanOne(ps)
    THEN Raised("ValueError", "every prime factor must be greater than 1", 0)
    ELSE NoResult

Checked ==
    ValidationError(argIsInt, argument, primesIsIterable, primesAllInt, primes)

\* lines 168-187 of the top-level call, when a check fails
Invalid ==
    /\ pc = "start"
    /\ Checked # NoResult
    /\ Finish(Checked)
    /\ UNCHANGED <<argument, primes, partial, argIsInt, primesIsIterable,
                   primesAllInt, run, first, missed>>

Valid == Checked = NoResult

\* line 193: the base case of the top-level call
BaseCase ==
    /\ pc = "start"
    /\ Valid
    /\ argument = 2
    /\ Finish(Returned(BaseCertificate))
    /\ UNCHANGED <<argument, primes, partial, argIsInt, primesIsIterable,
                   primesAllInt, run, first, missed>>

\* lines 190, 197: the top-level call enters its loop
Enter ==
    /\ pc = "start"
    /\ Valid
    /\ argument # 2
    /\ stack' = <<Frame(argument, SortedList(primes), partial)>>
    /\ pc' = "running"
    /\ UNCHANGED <<argument, primes, partial, argIsInt, primesIsIterable,
                   primesAllInt, result, run, first, missed>>

Running(at) == pc = "running" /\ Top.at = at

InLoop == Running("loop") /\ Top.i <= Len(Candidates(Top.primes, Top.argument))

Keep == UNCHANGED <<argument, primes, partial, argIsInt, primesIsIterable,
                    primesAllInt, run, first>>

\* lines 201-203
CandidateTwo ==
    /\ InLoop
    /\ Current(Top) = 2
    /\ stack' = SetTop([Top EXCEPT
            !.certificate = DictUpdate(@, BaseCertificate),
            !.i = @ + 1])
    /\ UNCHANGED <<pc, result, missed>>
    /\ Keep

\* lines 207-223: incomplete factorization, partial certificate
CandidateUnknown ==
    /\ InLoop
    /\ Current(Top) # 2
    /\ Factored(Current(Top), Top.primes).n > 1
    /\ Top.partial
    /\ stack' = SetTop([Top EXCEPT
            !.certificate = DictSet(@, Current(Top), NoneValue),
            !.i = @ + 1])
    /\ UNCHANGED <<pc, result, missed>>
    /\ Keep

\* lines 207-229: incomplete factorization, RuntimeError
CandidateIncomplete ==
    /\ InLoop
    /\ Current(Top) # 2
    /\ Factored(Current(Top), Top.primes).n > 1
    /\ ~Top.partial
    /\ Finish(Raised("RuntimeError", "cannot find all prime factors for",
               Reported(Current(Top), Factored(Current(Top), Top.primes).n)))
    /\ UNCHANGED missed
    /\ Keep

\* lines 207-238, 22-23: the entry is written and _lucas is called
CandidateFactored ==
    /\ InLoop
    /\ Current(Top) # 2
    /\ LET p == Current(Top)
           fs == Factored(p, Top.primes)
       IN  /\ ~(fs.n > 1)
           /\ stack' = SetTop([Top EXCEPT
                  !.certificate = DictSet(@, p,
                                     ListValue(SetToSortedList(fs.factors))),
                  !.factors = fs.factors,
                  !.todo = fs.factors,
                  !.trial = 0,
                  !.at = IF p = 2 THEN "factors" ELSE "lucas"])
    /\ UNCHANGED <<pc, result, missed>>
    /\ Keep

\* line 26 when n - 2 <= 0: randbelow raises ValueError
LucasBadRange ==
    /\ Running("lucas")
    /\ Top.trial < LucasTrials
    /\ Current(Top) - 2 <= 0
    /\ Finish(Raised("ValueError", "Upper bound must be positive.", 0))
    /\ UNCHANGED missed
    /\ Keep

\* lines 25-32: one trial
LucasTrial ==
    /\ Running("lucas")
    /\ Top.trial < LucasTrials
    /\ \E a \in Bases(Current(Top)) :
          IF IsWitness(a, Current(Top), Top.factors)
          THEN stack' = SetTop([Top EXCEPT !.at = "factors", !.trial = 0])
          ELSE stack' = SetTop([Top EXCEPT !.trial = NextTrial(@)])
    /\ UNCHANGED <<pc, result, missed>>
    /\ Keep

\* lines 34, 238-239, 251-254: the trials are exhausted; the invocation
\* returns None, which its caller (if any) turns into a RuntimeError
LucasExhausted ==
    /\ Running("lucas")
    /\ Top.trial >= LucasTrials
    /\ Finish(IF Depth > 1
              THEN Raised("RuntimeError", "factor is not prime", Top.argument)
              ELSE ReturnedNone)
    /\ missed' = (missed \/ \E a \in Bases(Current(Top)) :
                                IsWitness(a, Current(Top), Top.factors))
    /\ Keep

\* lines 243-247, 193-194, 258: the recursive call on the factor 2
RecurseBase ==
    /\ Running("factors")
    /\ \E f \in Top.todo :
          /\ f = 2
          /\ stack' = SetTop([Top EXCEPT
                 !.todo = @ \ {f},
                 !.certificate =
                     Merge(@, BaseCertificate)])
    /\ UNCHANGED <<pc, result, missed>>
    /\ Keep

\* lines 243-247, 168-197: the recursive call on another factor
RecurseCall ==
    /\ Running("factors")
    /\ \E f \in Top.todo :
          /\ f # 2
          /\ stack' = Append(SetTop([Top EXCEPT !.todo = @ \ {f}]),
                             Frame(f, SortedList(SubPool(Top.primes, f)),
                                   SubPartial(Top.partial)))
    /\ UNCHANGED <<pc, result, missed>>
    /\ Keep

\* line 243: the loop over the factors ends
FactorsDone ==
    /\ Running("factors")
    /\ Top.todo = {}
    /\ stack' = SetTop([Top EXCEPT !.at = "loop", !.i = @ + 1])
    /\ UNCHANGED <<pc, result, missed>>
    /\ Keep

AtEnd == Running("loop") /\ Top.i > Len(Candidates(Top.primes, Top.argument))

\* line 262 of a recursive call, line 258 of its caller
ReturnSub ==
    /\ AtEnd
    /\ Depth > 1
    /\ LET caller == stack[Depth - 1]
           sub == SortedItems(Top.certificate)
       IN  stack' = Append(SubSeq(stack, 1, Depth - 2),
                 [caller EXCEPT !.certificate = Merge(@, sub)])
    /\ UNCHANGED <<pc, result, missed>>
    /\ Keep

\* line 262 of the top-level call
ReturnTop ==
    /\ AtEnd
    /\ Depth = 1
    /\ Finish(Returned(SortedItems(Top.certificate)))
    /\ UNCHANGED missed
    /\ Keep

\* line 96: the certificate's keys are supplied to verify it
Verify ==
    /\ pc = "done"
    /\ run = 1
    /\ result.kind = "certificate"
    /\ ~partial
    /\ run' = 2
    /\ first' = result.certificate
    /\ primes' = KeyList(result.certificate)
    /\ result' = NoResult
    /\ missed' = FALSE
    /\ pc' = "start"
    /\ UNCHANGED <<argument, partial, argIsInt, primesIsIterable,
                   primesAllInt, stack>>

Next ==
    \/ Invalid \/ BaseCase \/ Enter
    \/ CandidateTwo \/ CandidateUnknown \/ CandidateIncomplete
    \/ CandidateFactored
    \/ LucasBadRange \/ LucasTrial \/ LucasExhausted
    \/ RecurseBase \/ RecurseCall \/ FactorsDone
    \/ ReturnSub \/ ReturnTop
    \/ Verify

Spec == Init /\ [][Next]_vars

\* the interpreter keeps executing the call until it ends
FairSpec == Spec /\ WF_vars(Next)

(* ------------------------------ claims -------------------------------- *)
IsPrime(n) == n >= 2 /\ \A d \in 2..(n - 1) : n % d # 0

Done == pc = "done"
GotCertificate == Done /\ result.kind = "certificate"
Incomplete ==
    /\ Done
    /\ result.kind = "raise"
    /\ result.msg = "cannot find all prime factors for"

\* the candidates of the top-level call, and the trial division of one
TopCandidates == Candidates(SortedList(primes), argument)
TopFactored(p) == Factored(p, SortedList(primes))

Item(d, key) == d[Lookup(d, key)]

\* C1: in a returned certificate every key that maps to a factor list is a
\* prime number; a composite argument never maps to a factor list.
C1_Soundness ==
    GotCertificate =>
        \A j \in 1..Len(result.certificate) :
            result.certificate[j].v.known => IsPrime(result.certificate[j].k)

\* a partial certificate with a proven key above 3 next to a composite key
\* that is left unknown
C1_Witness ==
    /\ GotCertificate
    /\ \E j \in 1..Len(result.certificate) :
          result.certificate[j].v.known /\ result.certificate[j].k > 3
    /\ \E j \in 1..Len(result.certificate) :
          ~result.certificate[j].v.known /\ ~IsPrime(result.certificate[j].k)

\* C2: a call with partial=True on valid arguments never ends with
\* 'cannot find all prime factors'.
C2_PartialNeverIncomplete ==
    (Done /\ partial /\ Valid) => ~Incomplete

\* C3 as stated: the number reported by 'cannot find all prime factors' is
\* the cofactor left of p - 1 for a candidate p that is not fully factored.
C3_ReportsRemaining ==
    Incomplete =>
        \E j \in 1..Len(TopCandidates) :
            /\ TopCandidates[j] # 2
            /\ TopFactored(TopCandidates[j]).n > 1
            /\ result.value = TopFactored(TopCandidates[j]).n

\* C3 as amended: the number reported is p - 1 for a candidate p whose p - 1
\* is not fully factored; without partial, p is the first such candidate.
C3_ReportsPMinusOne ==
    Incomplete =>
        \E j \in 1..Len(TopCandidates) :
            /\ TopCandidates[j] # 2
            /\ TopFactored(TopCandidates[j]).n > 1
            /\ result.value = TopCandidates[j] - 1
            /\ ~partial =>
                  \A h \in 1..(j - 1) :
                      \/ TopCandidates[h] = 2
                      \/ TopFactored(TopCandidates[h]).n <= 1

\* the primes divide p - 1 in part: what is left differs from p - 1
C3_Witness ==
    /\ Incomplete
    /\ TopFactored(result.value + 1).n # result.value

\* same keys, same value for each key
SameCertificate(c, d) ==
    /\ Keys(c) = Keys(d)
    /\ \A key \in Keys(c) : Item(c, key).v = Item(d, key).v

\* C4: when the first call (partial=False) returned a certificate, the call
\* on its keys returns an equal certificate, unless a witness search gave up
\* although a witness existed.
C4_RoundTrip ==
    (Done /\ run = 2 /\ ~missed) =>
        /\ result.kind = "certificate"
        /\ SameCertificate(result.certificate, first)

\* a verified certificate whose argument is smaller than one of its keys
C4_Witness ==
    /\ GotCertificate
    /\ run = 2
    /\ Len(first) >= 3
    /\ \E key \in Keys(first) : key > argument

\* C5: in a returned certificate every factor in a factor list is a key that
\* maps to a factor list of smaller numbers, down to 2, which maps to [].
C5_Closure ==
    GotCertificate =>
        \A j \in 1..Len(result.certificate) :
            LET e == result.certificate[j] IN
            /\ e.k = 2 => e.v = ListValue(<<>>)
            /\ (e.v.known /\ e.k # 2) => e.v.list # <<>>
            /\ e.v.known =>
                  \A h \in 1..Len(e.v.list) :
                      /\ e.v.list[h] < e.k
                      /\ e.v.list[h] \in Keys(result.certificate)
                      /\ Item(result.certificate, e.v.list[h]).v.known

\* a partial certificate holding an unknown entry and a proven chain
C5_Witness ==
    /\ GotCertificate
    /\ partial
    /\ \E j \in 1..Len(result.certificate) :
          ~result.certificate[j].v.known
    /\ \E j \in 1..Len(result.certificate) :
          result.certificate[j].v.list # <<>>

ValidationMessages ==
    {"argument must be an integer", "argument must be a positive integer",
     "prime factors must be supplied as an iterable",
     "every prime factor must be an integer",
     "every prime factor must be greater than 1"}

\* C6: a call with an argument below 1, an element of primes not above 1, a
\* non-integer or a non-iterable ends with one of the validation's
\* exceptions, whatever the other arguments are.
C6_ValidationFirst ==
    (Done /\ ( \/ ~argIsInt \/ argument < 1 \/ ~primesIsIterable
               \/ ~primesAllInt \/ ~AllGreaterThanOne(primes))) =>
        /\ result.kind = "raise"
        /\ result.exc \in {"TypeError", "ValueError"}
        /\ result.msg \in ValidationMessages

\* the base case argument with partial=True and a 1 among the primes
C6_Witness ==
    /\ Done
    /\ argIsInt /\ argument = 2 /\ partial
    /\ primesIsIterable /\ primesAllInt /\ ~AllGreaterThanOne(primes)
    /\ result.kind = "raise"

\* C7: when the call returns None, the argument is composite.
C7_NoneMeansComposite ==
    (Done /\ Valid /\ result.kind = "None") => ~IsPrime(argument)

\* C8 as stated: within one invocation no candidate is processed after a
\* larger one.
C8_Ascending ==
    [][(/\ pc = "running" /\ pc' = "running"
        /\ Len(stack') = Len(stack)
        /\ Top'.i > Top.i
        /\ Top'.i <= Len(Candidates(Top.primes, Top.argument)))
       => Current(Top') >= Current(Top)]_vars

\* C8 as amended: within one invocation the elements of primes are
\* processed in ascending order and the argument is processed last.
C8_PrimesAscendingArgumentLast ==
    [][(/\ pc = "running" /\ pc' = "running"
        /\ Len(stack') = Len(stack)
        /\ Top'.i > Top.i
        /\ Top'.i <= Len(Candidates(Top.primes, Top.argument)))
       => /\ Top'.i = Top.i + 1
          /\ \/ Current(Top') >= Current(Top)
             \/ /\ Top'.i = Len(Top.primes) + 1
                /\ Current(Top') = Top.argument]_vars

\* the argument has been factored after a larger element of primes
C8_Witness ==
    /\ pc = "running"
    /\ Depth = 1
    /\ Top.i = Len(Top.primes) + 1
    /\ Top.i > 1
    /\ Top.at = "factors"
    /\ Top.argument < Top.primes[Top.i - 1]

\* C9: every witness search is on an n >= 2.
C9_LucasPrecondition ==
    (pc = "running" /\ Top.at = "lucas") => Current(Top) >= 2

\* every recursive call is on a factor of the caller's candidate, smaller
\* than it, with primes below the factor
RecursionDescends ==
    \A d \in 2..Depth :
        /\ stack[d].argument < Current(stack[d - 1])
        /\ stack[d].argument \in stack[d - 1].factors
        /\ \A j \in 1..Len(stack[d].primes) :
              stack[d].primes[j] < stack[d].argument

TrialsBounded ==
    \A d \in 1..Depth : stack[d].trial <= LucasTrials

\* C10: every call ends; every recursive call descends and every witness
\* search makes at most 100 trials.
C10_Termination ==
    /\ (pc # "done") ~> (pc = "done")
    /\ [](pc = "running" => (RecursionDescends /\ TrialsBounded))

\* a call that ended after a recursive call on the factor 3 of 7
C10_Witness ==
    /\ GotCertificate
    /\ argument = 7
    /\ 3 \in Keys(result.certificate)
    /\ Item(result.certificate, 7).v.known

=============================================================================
